---- MODULE Spec2Model ----
(***************************************************************************)
(* Model of claude_batch_mcp.py: the job table (jobs.json), the per-job    *)
(* result, raw and metadata files, and the operations submit_job,          *)
(* fetch_job and poll_once working against the two remote batch backends.  *)
(*                                                                         *)
(* Text is a sequence of one-character strings.  A results stream is kept  *)
(* as the sequence of its lines (what str.splitlines() yields); a line is  *)
(* blank, unparsable (json.loads raises) or a parsed object.               *)
(* Time is in whole seconds.                                               *)
(***************************************************************************)
EXTENDS Integers, Sequences, FiniteSets, TLC

\* ------------------------------------------------------------------ bounds
MaxTime == 15       \* the clock stops advancing here
TickStep == 15      \* seconds between two looks at the clock
MaxLines == 3       \* lines of a results stream handed to extraction alone
MaxPolls == 4       \* polls of one job followed from submit on
MaxAttempt == 1340  \* polls without an end that a job's record has counted
MaxIdLen == 2       \* characters of a job id handed out by a backend
MaxJobs == 2        \* jobs in the table when artifact paths are followed
MaxRetries == 2     \* polls of one job in the daemon loop before its calls succeed

\* The job ids the backends hand out: job 1 is submitted to the direct backend,
\* job 2 to the storage-mediated one
JobIds == {1, 2}

\* --------------------------------------------------------------- text
NL == "\n"
SP == " "

IsSpace(c) == c \in {NL, SP}

RECURSIVE LStrip(_)
LStrip(s) == IF s # <<>> /\ IsSpace(Head(s)) THEN LStrip(Tail(s)) ELSE s

RECURSIVE RStrip(_)
RStrip(s) ==
    IF s # <<>> /\ IsSpace(s[Len(s)]) THEN RStrip(SubSeq(s, 1, Len(s) - 1)) ELSE s

\* str.strip()
Strip(s) == RStrip(LStrip(s))

\* sep.join(parts)
RECURSIVE Join(_, _)
Join(parts, sep) ==
    IF parts = <<>> THEN <<>>
    ELSE IF Len(parts) = 1 THEN parts[1]
    ELSE parts[1] \o sep \o Join(Tail(parts), sep)

\* ------------------------------------------------------ results streams
BlankLine == [kind |-> "blank"]
BadLine == [kind |-> "bad"]

\* One entry of the direct backend's results stream.
Entry(cid, type, texts) ==
    [kind |-> "obj", custom_id |-> cid, type |-> type, texts |-> texts]

\* One line of a storage-mediated output document; content is the list of
\* text blocks, or absent.
VLine(hasContent, texts) ==
    [kind |-> "obj", has_content |-> hasContent, texts |-> texts]

\* The text of a results line as the service sent it: one line, no newline
\* inside it.
Received(obj) == <<"{", obj.custom_id, ":", obj.type, "}">>

\* json.dumps(obj, indent=2): the object rendered over several indented lines.
DumpsIndent(obj) == <<"{", NL, SP, SP, obj.custom_id, ":", SP, obj.type, NL, "}">>

\* json.dumps(obj, ensure_ascii=False): a non-empty one-line rendering of the object.
Dumps(obj) ==
    IF "custom_id" \in DOMAIN obj
    THEN <<"{", obj.custom_id, ":", obj.type, "}">>
    ELSE <<"{", "}">>

Raise == [raised |-> TRUE]
Return(v) == [raised |-> FALSE, value |-> v]

\* ExtractFrom without the filter on custom_id
RECURSIVE ExtractFrom_NoIdFilter(_, _, _, _)
ExtractFrom_NoIdFilter(lines, i, custom_id, out_chunks) ==
    IF i > Len(lines) THEN Return(Strip(Join(out_chunks, <<NL, NL>>)))
    ELSE LET line == lines[i] IN
         IF line.kind = "blank" THEN ExtractFrom_NoIdFilter(lines, i + 1, custom_id, out_chunks)
         ELSE IF line.kind = "bad" THEN Raise
         ELSE IF line.type # "succeeded"
              THEN IF line.custom_id = custom_id THEN Return(DumpsIndent(line))
                   ELSE ExtractFrom_NoIdFilter(lines, i + 1, custom_id, out_chunks)
         ELSE IF line.texts # <<>>
              THEN ExtractFrom_NoIdFilter(lines, i + 1, custom_id,
                                          Append(out_chunks, Join(line.texts, <<NL>>)))
         ELSE ExtractFrom_NoIdFilter(lines, i + 1, custom_id, out_chunks)

\* AnthropicBatchBackend.extract_text_from_jsonl, from line i on, with the
\* chunks collected so far.
RECURSIVE ExtractFrom(_, _, _, _)
ExtractFrom(lines, i, custom_id, out_chunks) ==
    IF i > Len(lines) THEN Return(Strip(Join(out_chunks, <<NL, NL>>)))
    ELSE LET line == lines[i] IN
         IF line.kind = "blank" THEN ExtractFrom(lines, i + 1, custom_id, out_chunks)
         ELSE IF line.kind = "bad" THEN Raise
         ELSE IF line.custom_id # custom_id
              THEN ExtractFrom(lines, i + 1, custom_id, out_chunks)
         ELSE IF line.type # "succeeded" THEN Return(DumpsIndent(line))
         ELSE IF line.texts # <<>>
              THEN ExtractFrom(lines, i + 1, custom_id,
                               Append(out_chunks, Join(line.texts, <<NL>>)))
         ELSE ExtractFrom(lines, i + 1, custom_id, out_chunks)

extract_text_from_jsonl(jsonl, custom_id) == ExtractFrom(jsonl, 1, custom_id, <<>>)

NonBlank(texts) == SelectSeq(texts, LAMBDA t : Strip(t) # <<>>)

\* VertexBatchBackend.extract_text_from_vertex_jsonl
RECURSIVE VertexExtractFrom(_, _, _)
VertexExtractFrom(lines, i, out) ==
    IF i > Len(lines) THEN Return(Strip(Join(out, <<NL, NL>>)))
    ELSE LET line == lines[i] IN
         IF line.kind = "blank" THEN VertexExtractFrom(lines, i + 1, out)
         ELSE IF line.kind = "bad" THEN Raise
         ELSE IF line.has_content /\ NonBlank(line.texts) # <<>>
              THEN VertexExtractFrom(lines, i + 1,
                                     Append(out, Join(NonBlank(line.texts), <<NL>>)))
         ELSE VertexExtractFrom(lines, i + 1, Append(out, Dumps(line)))

extract_text_from_vertex_jsonl(jsonl) == VertexExtractFrom(jsonl, 1, <<>>)

\* One object under the output prefix: its name (as a sort key), whether the
\* name ends in .jsonl, and the lines of its content.
Obj(name, jsonl, lines) == [name |-> name, jsonl |-> jsonl, lines |-> lines]

\* sorted(objs): insertion of one object into a list sorted by name
RECURSIVE Insert(_, _)
Insert(o, sorted) ==
    IF sorted = <<>> THEN <<o>>
    ELSE IF o.name <= Head(sorted).name THEN <<o>> \o sorted
    ELSE <<Head(sorted)>> \o Insert(o, Tail(sorted))

RECURSIVE Sorted(_)
Sorted(objs) == IF objs = <<>> THEN <<>> ELSE Insert(Head(objs), Sorted(Tail(objs)))

\* "\n".join(parts) on documents kept as line sequences: the lines of all
\* the parts, in order.
RECURSIVE ConcatLines(_)
ConcatLines(objs) ==
    IF objs = <<>> THEN <<>> ELSE Head(objs).lines \o ConcatLines(Tail(objs))

\* VertexBatchBackend.fetch_output_text on the listing of the output prefix
fetch_output_text(listing) ==
    LET jsonl == SelectSeq(listing, LAMBDA o : o.jsonl)
        objs == IF jsonl # <<>> THEN jsonl ELSE listing
    IN IF objs = <<>> THEN Raise ELSE Return(ConcatLines(Sorted(objs)))

\* ------------------------------------------------------------- backoff
BackoffBase == 15
FactorNum == 17
FactorDen == 10
BackoffCap == 300
JitterDen == 4
DelayFloor == 1

Min(a, b) == IF a <= b THEN a ELSE b
Max(a, b) == IF a >= b THEN a ELSE b

RECURSIVE Pow(_, _)
Pow(b, e) == IF e <= 0 THEN 1 ELSE b * Pow(b, e - 1)

\* A Python float is a double: a significand of FloatDigits decimal digits
\* after the first (FloatScale <= m < 10 * FloatScale) and a power of ten,
\* the value being m / FloatScale * 10^e. The largest finite double is
\* 1.7976931...e308.
FloatDigits == 7
FloatScale == Pow(10, FloatDigits)
FloatMaxExp == 308
FloatMaxSig == 17976931

\* x * factor, rounded towards zero
TimesFactor(x) ==
    LET m == (x.m * FactorNum) \div FactorDen
    IN IF m >= 10 * FloatScale THEN [m |-> m \div 10, e |-> x.e + 1]
       ELSE [m |-> m, e |-> x.e]

\* x multiplied by factor k times, the multiplications done in two halves;
\* a value already beyond the largest double stays there
RECURSIVE TimesFactorPow(_, _)
TimesFactorPow(x, k) ==
    IF x.e > FloatMaxExp \/ k <= 0 THEN x
    ELSE IF k = 1 THEN TimesFactor(x)
    ELSE TimesFactorPow(TimesFactorPow(x, k \div 2), k - (k \div 2))

\* factor ** k for k >= 0
FactorPow(k) == TimesFactorPow([m |-> FloatScale, e |-> 0], k)

\* float ** int raises OverflowError when the power is beyond the largest double
PowOverflows(attempt) ==
    LET x == FactorPow(Max(0, attempt))
    IN x.e > FloatMaxExp \/ (x.e = FloatMaxExp /\ x.m > FloatMaxSig)

\* raw = min(cap, base * factor ** max(0, attempt)), factor = 17/10, where
\* the power does not overflow
BackoffRaw(attempt) ==
    LET x == FactorPow(Max(0, attempt))
    IN IF x.e >= 2 THEN BackoffCap
       ELSE Min(BackoffCap, (BackoffBase * x.m) \div (FloatScale \div Pow(10, x.e)))

\* The delay that stands for backoff_next_delay_s raising OverflowError
OverflowError == 0 - 1

\* backoff_next_delay_s: max(1.0, raw * j) with j uniform in [1 - 1/4, 1 + 1/4];
\* the two ends of the range stand for the random draw.
backoff_next_delay_s(attempt) ==
    IF PowOverflows(attempt) THEN {OverflowError} ELSE
    { Max(DelayFloor, (BackoffRaw(attempt) * (JitterDen - 1)) \div JitterDen),
      Max(DelayFloor, (BackoffRaw(attempt) * (JitterDen + 1)) \div JitterDen) }

\* ------------------------------------------------------ remote service
VertexDone ==
    {"JOB_STATE_SUCCEEDED", "JOB_STATE_FAILED", "JOB_STATE_CANCELLED", "JOB_STATE_PAUSED"}

Foreign == "cx"

TextA == <<"a">>
TextB == <<"b", SP>>

\* Results streams the direct backend may return for a job with correlation id cid
AnthropicOuts(cid) ==
    { <<Entry(Foreign, "succeeded", <<TextB>>), BlankLine,
        Entry(cid, "succeeded", <<TextA, TextB>>)>>,
      <<Entry(Foreign, "succeeded", <<TextB>>), Entry(cid, "errored", <<>>)>>,
      <<Entry(cid, "succeeded", <<<<SP>>>>)>>,
      <<BadLine>> }

\* Listings of the output prefix the storage-mediated backend may show
VertexOuts ==
    { <<>>,
      <<Obj(2, TRUE, <<VLine(FALSE, <<>>)>>), Obj(1, TRUE, <<VLine(TRUE, <<TextA>>)>>),
        Obj(3, FALSE, <<BadLine>>)>>,
      <<Obj(1, TRUE, <<BadLine>>)>> }

\* What the remote answers to the calls one operation makes for one job:
\* fail = "status": the status call raises; fail = "fetch": a call made by
\* fetch_job raises; otherwise the status and the output served.  delay is the
\* backoff delay drawn if the job is rescheduled.
Resp(fail, status, out, delay) ==
    [fail |-> fail, status |-> status, out |-> out, delay |-> delay]

Unreadable(rec, out) ==
    IF rec.backend = "anthropic"
    THEN extract_text_from_jsonl(out, rec.custom_id).raised
    ELSE fetch_output_text(out).raised
         \/ extract_text_from_vertex_jsonl(fetch_output_text(out).value).raised

\* ps == "ended" / state in (JOB_STATE_SUCCEEDED, ...)
RemoteDone(rec, status) ==
    IF rec.backend = "anthropic" THEN status = "ended" ELSE status \in VertexDone

\* The answers to a single fetch_job call (no delay is drawn)
Answers(rec) ==
    LET Pending == IF rec.backend = "anthropic" THEN "in_progress" ELSE "JOB_STATE_RUNNING"
        Done == IF rec.backend = "anthropic" THEN {"ended"} ELSE VertexDone
        s0 == IF rec.backend = "anthropic" THEN "ended" ELSE "JOB_STATE_SUCCEEDED"
        Outs == IF rec.backend = "anthropic" THEN AnthropicOuts(rec.custom_id) ELSE VertexOuts
    IN  {Resp("status", Pending, <<>>, 0), Resp("none", Pending, <<>>, 0),
         Resp("fetch", s0, <<>>, 0)}
        \cup {Resp("none", s0, o, 0) : o \in {x \in Outs : Unreadable(rec, x)}}
        \cup {Resp("none", s, o, 0) : s \in Done, o \in {x \in Outs : ~Unreadable(rec, x)}}

\* The answers to the calls a sweep makes for a job that has no result file:
\* a delay is drawn whenever the job is rescheduled.
Responses(rec) ==
    LET Ends == {a \in Answers(rec) :
                    /\ a.fail = "none"
                    /\ RemoteDone(rec, a.status)
                    /\ ~Unreadable(rec, a.out)}
    IN Ends \cup {[a EXCEPT !.delay = d] :
                     a \in Answers(rec) \ Ends, d \in backoff_next_delay_s(rec.attempt)}

\* ------------------------------------------------------------- state
VARIABLES
    jobs,      \* jobs.json: job id -> record, for the ids in the table
    meta,      \* <id>.meta.json: job id -> record snapshot, for the files that exist
    result,    \* <id>.md: job id -> text, for the files that exist
    raw,       \* <id>.raw.jsonl: job id -> downloaded stream, for the files that exist
    now,       \* the clock
    last,      \* what the last operation was, saw and returned
    store,     \* jobs.json and jobs.json.tmp as bytes, and the save in progress
    stale,     \* a second sweeper process: the record it holds in memory
    hist       \* job id -> what the remote answered to each poll of the job so far

vars == <<jobs, meta, result, raw, now, last, store, stale, hist>>

\* The variables that only the finer-grained specifications below move
fine == <<store, stale, hist>>

Empty == [x \in {} |-> 0]

Put(f, k, v) == [x \in DOMAIN f \cup {k} |-> IF x = k THEN v ELSE f[x]]

Files == [jobs |-> jobs, meta |-> meta, result |-> result, raw |-> raw]

Terminal(state) == state \in {"succeeded", "failed"}

CustomId(j) == "c" \o ToString(j)

\* NewRecord with the first poll put off by one backoff base
NewRecord_DueLater(j, backend, t) ==
    [backend |-> backend, state |-> "submitted", attempt |-> 0,
     next_poll_at |-> t + BackoffBase, created_at |-> t,
     custom_id |-> IF backend = "anthropic" THEN "c" \o ToString(j) ELSE ""]

\* JobRecord as built by submit_job
NewRecord(j, backend, t) ==
    [backend |-> backend, state |-> "submitted", attempt |-> 0, next_poll_at |-> t,
     created_at |-> t, custom_id |-> IF backend = "anthropic" THEN CustomId(j) ELSE ""]

\* update_job that saves the table and leaves the snapshot file as it was
update_job_NoSnapshot(S, j, rec) == [S EXCEPT !.jobs = Put(S.jobs, j, rec)]

\* update_job: reload the table, replace this job's record, save, rewrite the snapshot
update_job(S, j, rec) ==
    [S EXCEPT !.jobs = Put(S.jobs, j, rec), !.meta = Put(S.meta, j, rec)]

\* submit_job that starts from an empty table instead of the loaded one
submit_job_FreshTable(S, j, backend, t) ==
    [S EXCEPT !.jobs = Put(Empty, j, NewRecord(j, backend, t)),
              !.meta = Put(S.meta, j, NewRecord(j, backend, t))]

\* submit_job once the backend has handed out job id j: add the record to the
\* loaded table, save, write the snapshot
submit_job(S, j, backend, t) ==
    [S EXCEPT !.jobs = Put(S.jobs, j, NewRecord(j, backend, t)),
              !.meta = Put(S.meta, j, NewRecord(j, backend, t))]

\* ------------------------------------------------------------ fetch_job
\* The outcome of fetch_job: whether it raised, the text returned, the files
\* after it, the caller's record object after it, whether the remote was called.
FetchOut(raised, text, S, rec, called) ==
    [raised |-> raised, text |-> text, S |-> S, rec |-> rec, called |-> called]

\* rec.state = "succeeded" if text.strip() else "failed"
StateFromText(text) == IF Strip(text) # <<>> THEN "succeeded" ELSE "failed"

\* rec.state = "succeeded" if state == "JOB_STATE_SUCCEEDED" else "failed"
StateFromRemote(state) == IF state = "JOB_STATE_SUCCEEDED" THEN "succeeded" ELSE "failed"

\* FetchAnthropic without the check that the batch has ended
FetchAnthropic_NoEndedCheck(S, j, rec, r) ==
    IF r.fail # "none" THEN [raised |-> TRUE, text |-> <<>>, S |-> S, rec |-> rec, called |-> TRUE]
    ELSE LET S1 == [S EXCEPT !.raw = Put(S.raw, j, r.out)]
             x == extract_text_from_jsonl(r.out, rec.custom_id)
         IN IF x.raised
            THEN [raised |-> TRUE, text |-> <<>>, S |-> S1, rec |-> rec, called |-> TRUE]
            ELSE [raised |-> FALSE, text |-> x.value,
                  S |-> [S1 EXCEPT !.result = Put(S1.result, j, x.value \o <<NL>>),
                                   !.jobs = Put(S1.jobs, j, rec),
                                   !.meta = Put(S1.meta, j, rec)],
                  rec |-> rec, called |-> TRUE]

\* The direct-backend branch of fetch_job, after the cache check
FetchAnthropic(S, j, rec, r) ==
    IF r.fail # "none" \/ r.status # "ended" THEN FetchOut(TRUE, <<>>, S, rec, TRUE)
    ELSE LET S1 == [S EXCEPT !.raw = Put(S.raw, j, r.out)]
             x == extract_text_from_jsonl(r.out, rec.custom_id)
         IN IF x.raised THEN FetchOut(TRUE, <<>>, S1, rec, TRUE)
            ELSE LET text == x.value
                     rec2 == [rec EXCEPT !.state = StateFromText(text)]
                     S2 == [S1 EXCEPT !.result = Put(S1.result, j, text \o <<NL>>)]
                 IN FetchOut(FALSE, text, update_job(S2, j, rec2), rec2, TRUE)

\* The storage-mediated branch of fetch_job, after the cache check
FetchVertex(S, j, rec, r) ==
    IF r.fail # "none" \/ r.status \notin VertexDone THEN FetchOut(TRUE, <<>>, S, rec, TRUE)
    ELSE LET dl == fetch_output_text(r.out)
         IN IF dl.raised THEN FetchOut(TRUE, <<>>, S, rec, TRUE)
            ELSE LET x == extract_text_from_vertex_jsonl(dl.value)
                 IN IF x.raised THEN FetchOut(TRUE, <<>>, S, rec, TRUE)
                    ELSE LET text == x.value
                             rec2 == [rec EXCEPT !.state = StateFromRemote(r.status)]
                             S2 == [S EXCEPT !.result = Put(S.result, j, text \o <<NL>>)]
                         IN FetchOut(FALSE, text, update_job(S2, j, rec2), rec2, TRUE)

\* CacheHit with the force flag read the wrong way round
CacheHit_ForceInverted(S, j, force) == j \in DOMAIN S.result /\ force

\* rp.exists() and not force
CacheHit(S, j, force) == j \in DOMAIN S.result /\ ~force

fetch_job(S, j, rec, force, r) ==
    IF CacheHit(S, j, force) THEN FetchOut(FALSE, S.result[j], S, rec, FALSE)
    ELSE IF rec.backend = "anthropic" THEN FetchAnthropic(S, j, rec, r)
    ELSE FetchVertex(S, j, rec, r)

\* ------------------------------------------------------------ poll_once
\* jobs.sort(key=created_at, reverse=True) over the table read in key order
Before(J, a, b) ==
    \/ J[a].created_at > J[b].created_at
    \/ J[a].created_at = J[b].created_at /\ a < b

RECURSIVE list_jobs_of(_, _)
list_jobs_of(J, ids) ==
    IF ids = {} THEN <<>>
    ELSE LET a == CHOOSE x \in ids : \A y \in ids \ {x} : Before(J, x, y)
         IN <<a>> \o list_jobs_of(J, ids \ {a})

list_jobs(J) == list_jobs_of(J, DOMAIN J)

\* due = now >= due_time
Due(rec, t) == t >= rec.next_poll_at

\* The jobs a sweep over table J at time t does not skip
Polled(J, t) == {j \in DOMAIN J : ~Terminal(J[j].state) /\ Due(J[j], t)}

\* What a sweep hands on from one job to the next: the files, the completed
\* list, what each polled job's remote calls came to, and whether an exception
\* has left the loop.
SweepAcc(S, completed, seen) ==
    [S |-> S, completed |-> completed, seen |-> seen, raised |-> FALSE]

\* Reschedule without rec.attempt += 1
Reschedule_KeepsAttempt(acc, j, rec, t, delay, what) ==
    [S |-> [acc.S EXCEPT !.jobs = Put(acc.S.jobs, j, [rec EXCEPT !.next_poll_at = t + delay]),
                         !.meta = Put(acc.S.meta, j, [rec EXCEPT !.next_poll_at = t + delay])],
     completed |-> acc.completed,
     seen |-> Put(acc.seen, j, what),
     raised |-> FALSE]

\* The tail of the loop body: schedule the next poll and save the record.
\* The delay is computed outside the try block, so its exception ends the sweep.
Reschedule(acc, j, rec, t, delay, what) ==
    LET rec2 == [rec EXCEPT !.attempt = rec.attempt + 1, !.next_poll_at = t + delay]
    IN IF delay = OverflowError
       THEN [acc EXCEPT !.raised = TRUE, !.seen = Put(acc.seen, j, what)]
       ELSE SweepAcc(update_job(acc.S, j, rec2), acc.completed, Put(acc.seen, j, what))

\* How the answer r to a job's calls reads to a caller that makes all of
\* them: a remote call failed, the job is still pending, it ended with output
\* that cannot be turned into text, it ended unsuccessfully, or it ended well.
Classify(rec, r) ==
    IF r.fail # "none" THEN "error"
    ELSE IF ~RemoteDone(rec, r.status) THEN "pending"
    ELSE IF Unreadable(rec, r.out) THEN "unreadable"
    ELSE IF rec.backend = "anthropic"
         THEN IF \E i \in 1..Len(r.out) :
                    /\ r.out[i].kind = "obj"
                    /\ r.out[i].custom_id = rec.custom_id
                    /\ r.out[i].type # "succeeded"
              THEN "unsuccessful" ELSE "ok"
    ELSE IF r.status # "JOB_STATE_SUCCEEDED" THEN "unsuccessful" ELSE "ok"

\* PollJob without the check that skips succeeded and failed records
PollJob_NoTerminalSkip(acc, j, rec, t, r) ==
    IF ~Due(rec, t) THEN acc
    ELSE IF r.fail = "status" THEN Reschedule(acc, j, rec, t, r.delay, "error")
    ELSE IF RemoteDone(rec, r.status)
         THEN LET f == fetch_job(acc.S, j, rec, FALSE, r)
              IN IF f.raised
                 THEN Reschedule([acc EXCEPT !.S = f.S], j, f.rec, t, r.delay,
                                 Classify(rec, r))
                 ELSE SweepAcc(f.S, Append(acc.completed, j),
                               Put(acc.seen, j,
                                   IF f.called THEN Classify(rec, r) ELSE "cached"))
    ELSE Reschedule(acc, j, [rec EXCEPT !.state = "running"], t, r.delay, "pending")

\* PollJob with rec.state = "running" assigned before the status call
PollJob_RunningBeforeStatus(acc, j, rec, t, r) ==
    LET run == [rec EXCEPT !.state = "running"] IN
    IF Terminal(rec.state) \/ ~Due(rec, t) THEN acc
    ELSE IF r.fail = "status" THEN Reschedule(acc, j, run, t, r.delay, "error")
    ELSE IF RemoteDone(rec, r.status)
         THEN LET f == fetch_job(acc.S, j, run, FALSE, r)
              IN IF f.raised
                 THEN Reschedule([acc EXCEPT !.S = f.S], j, f.rec, t, r.delay,
                                 Classify(rec, r))
                 ELSE SweepAcc(f.S, Append(acc.completed, j),
                               Put(acc.seen, j,
                                   IF f.called THEN Classify(rec, r) ELSE "cached"))
    ELSE Reschedule(acc, j, run, t, r.delay, "pending")

\* PollJob leaving the loop after the first fetched job (break for continue)
PollJob_StopsAfterCompletion(acc, j, rec, t, r) ==
    IF acc.completed # <<>> THEN acc
    ELSE IF Terminal(rec.state) \/ ~Due(rec, t) THEN acc
    ELSE IF r.fail = "status" THEN Reschedule(acc, j, rec, t, r.delay, "error")
    ELSE IF RemoteDone(rec, r.status)
         THEN LET f == fetch_job(acc.S, j, rec, FALSE, r)
              IN IF f.raised
                 THEN Reschedule([acc EXCEPT !.S = f.S], j, f.rec, t, r.delay,
                                 Classify(rec, r))
                 ELSE SweepAcc(f.S, Append(acc.completed, j),
                               Put(acc.seen, j,
                                   IF f.called THEN Classify(rec, r) ELSE "cached"))
    ELSE Reschedule(acc, j, [rec EXCEPT !.state = "running"], t, r.delay, "pending")

\* One pass of the loop body of poll_once for the record rec of job j, as
\* listed at the start of the sweep
PollJob(acc, j, rec, t, r) ==
    IF Terminal(rec.state) \/ ~Due(rec, t) THEN acc
    ELSE IF r.fail = "status" THEN Reschedule(acc, j, rec, t, r.delay, "error")
    ELSE IF RemoteDone(rec, r.status)
         THEN LET f == fetch_job(acc.S, j, rec, FALSE, r)
              IN IF f.raised
                 THEN Reschedule([acc EXCEPT !.S = f.S], j, f.rec, t, r.delay,
                                 Classify(rec, r))
                 ELSE SweepAcc(f.S, Append(acc.completed, j),
                               Put(acc.seen, j,
                                   IF f.called THEN Classify(rec, r) ELSE "cached"))
    ELSE Reschedule(acc, j, [rec EXCEPT !.state = "running"], t, r.delay, "pending")

RECURSIVE PollFrom(_, _, _, _, _, _)
PollFrom(acc, list, i, J, t, env) ==
    IF i > Len(list) \/ acc.raised THEN acc
    ELSE LET j == list[i]
             r == IF j \in DOMAIN env THEN env[j] ELSE Resp("none", "", <<>>, 0)
         IN PollFrom(PollJob(acc, j, J[j], t, r), list, i + 1, J, t, env)

\* The loop of poll_once without the try/except: the first failing remote
\* call ends the sweep with an exception
RECURSIVE PollFrom_NoExcept(_, _, _, _, _, _)
PollFrom_NoExcept(acc, list, i, J, t, env) ==
    IF i > Len(list) THEN acc
    ELSE LET j == list[i]
             r == IF j \in DOMAIN env THEN env[j] ELSE Resp("none", "", <<>>, 0)
             rec == J[j]
             polled == ~Terminal(rec.state) /\ Due(rec, t)
             raises == \/ r.fail = "status"
                       \/ RemoteDone(rec, r.status)
                          /\ fetch_job(acc.S, j, rec, FALSE, r).raised
         IN IF polled /\ raises
            THEN [acc EXCEPT !.raised = TRUE,
                             !.S = IF r.fail = "status" THEN acc.S
                                   ELSE fetch_job(acc.S, j, rec, FALSE, r).S,
                             !.seen = Put(acc.seen, j, Classify(rec, r))]
            ELSE PollFrom_NoExcept(PollJob(acc, j, rec, t, r), list, i + 1, J, t, env)

poll_once_NoExcept(S, t, env) ==
    PollFrom_NoExcept(SweepAcc(S, <<>>, Empty), list_jobs(S.jobs), 1, S.jobs, t, env)

\* poll_once at time t, the remote answering env[j] for job j
poll_once(S, t, env) ==
    PollFrom(SweepAcc(S, <<>>, Empty), list_jobs(S.jobs), 1, S.jobs, t, env)

\* ------------------------------------------------------------ the store
\* A file's text is a sequence of tokens; the job table is written as an
\* opening brace, one item per record in key order, and a closing brace.
JobsPath == "jobs.json"

Open == [t |-> "{"]
Close == [t |-> "}"]
Item(id, rec) == [t |-> "item", id |-> id, rec |-> rec]
Junk == [t |-> "junk"]

RECURSIVE Items(_, _)
Items(J, ids) ==
    IF ids = {} THEN <<>>
    ELSE LET a == CHOOSE x \in ids : \A y \in ids : x <= y
         IN <<Item(a, J[a])>> \o Items(J, ids \ {a})

\* json.dumps(obj, indent=2, sort_keys=True) of a job table
Serialize(J) == <<Open>> \o Items(J, DOMAIN J) \o <<Close>>

\* json.loads(text): the table, or an exception when the text is not one
\* complete document
Parse(text) ==
    LET n == Len(text)
        ok == /\ n >= 2
              /\ text[1] = Open
              /\ text[n] = Close
              /\ \A i \in 2..(n - 1) : text[i].t = "item"
    IN IF ~ok THEN Raise
       ELSE Return([j \in {text[i].id : i \in 2..(n - 1)} |->
                       text[CHOOSE i \in 2..(n - 1) : text[i].id = j].rec])

\* atomic_write_json with the data written straight to the destination
TmpOf_SamePath(path) == path

\* path.with_suffix(path.suffix + ".tmp")
TmpOf(path) == path \o ".tmp"

\* load_jobs with an unreadable file taken for an empty table
load_jobs_CorruptIsEmpty(disk) ==
    IF JobsPath \notin DOMAIN disk THEN Return(Empty)
    ELSE IF Parse(disk[JobsPath]).raised THEN Return(Empty)
    ELSE Parse(disk[JobsPath])

\* load_jobs: disk maps the paths of the files that exist to their text
load_jobs(disk) ==
    IF JobsPath \notin DOMAIN disk THEN Return(Empty) ELSE Parse(disk[JobsPath])

\* tmp.write_text(data), its first step: the file is created or truncated
WriteOpen(disk, path) == Put(disk, TmpOf(path), <<>>)

\* tmp.write_text(data), one more piece of data reaches the file
WriteMore(disk, path, data) ==
    LET cur == disk[TmpOf(path)]
    IN Put(disk, TmpOf(path), Append(cur, data[Len(cur) + 1]))

\* tmp.replace(path)
Replace(disk, path) ==
    [p \in (DOMAIN disk \ {TmpOf(path)}) \cup {path} |->
        IF p = path THEN disk[TmpOf(path)] ELSE disk[p]]

\* What is at the job table's path: no file, or a file with its text
FileOf(disk) ==
    IF JobsPath \in DOMAIN disk THEN [exists |-> TRUE, text |-> disk[JobsPath]]
    ELSE [exists |-> FALSE, text |-> <<>>]

\* The outcome of an operation on the store: the error raised ("none",
\* "corrupt" for load_jobs' RuntimeError, "unknown" for get_job's KeyError) and
\* the table it worked on
Outcome(op, err, table) == [op |-> op, err |-> err, table |-> table]

\* The store with no save in progress and nothing done yet: prev is the file
\* as the last save found it, next the text that save was writing
StoreAt(disk) ==
    [disk |-> disk, pc |-> "idle", prev |-> FileOf(disk), next |-> FileOf(disk),
     out |-> Outcome("none", "none", Empty)]

\* A second process that is not running: where it is in its operation, the
\* job it works on, the record or the table it has loaded, the delay it drew,
\* and the jobs whose saved record it has overwritten with an older one
StaleIdle ==
    [pc |-> "idle", job |-> 0, rec |-> Empty, delay |-> 0, lost |-> {}, table |-> Empty]

\* The loop of poll_once run over the listed jobs in another order
poll_in_order(S, t, env, order) ==
    PollFrom(SweepAcc(S, <<>>, Empty), order, 1, S.jobs, t, env)

\* -------------------------------------------------------------- actions
BackendOf(j) == IF j = 1 THEN "anthropic" ELSE "vertex"

\* The record of an operation whose outcome is on its way to the caller: its
\* name and arguments, whether it raised, what it returned (text for fetch,
\* completed for a sweep), and what each job's remote calls came to (only the
\* jobs called appear).
Op(name, j, force, raised, text, completed, seen) ==
    [op |-> name, job |-> j, force |-> force, raised |-> raised, text |-> text,
     completed |-> completed, seen |-> seen]

NoOp == [op |-> "idle", job |-> 0, force |-> FALSE, raised |-> FALSE, text |-> <<>>,
         completed |-> <<>>, seen |-> Empty]

\* No operation is running: the process is single-threaded, and an operation
\* runs to completion before the next one starts
Idle == last = NoOp

Init ==
    /\ jobs = Empty
    /\ meta = Empty
    /\ result = Empty
    /\ raw = Empty
    /\ now = 0
    /\ last = NoOp
    /\ store = StoreAt(Empty)
    /\ stale = StaleIdle
    /\ hist = Empty

\* submit_job: the backend hands out a job id not in use
Submit(j) ==
    /\ Idle
    /\ j \in JobIds \ DOMAIN jobs
    /\ LET S == submit_job(Files, j, BackendOf(j), now)
       IN /\ jobs' = S.jobs
          /\ meta' = S.meta
          /\ last' = Op("submit", j, FALSE, FALSE, <<>>, <<>>, Empty)
    /\ UNCHANGED <<result, raw, now>>

\* The answers the remote may give to a sweep's calls, one per polled job
RECURSIVE Envs(_)
Envs(P) ==
    IF P = {} THEN {Empty}
    ELSE LET j == CHOOSE x \in P : TRUE
         IN {Put(e, j, r) : e \in Envs(P \ {j}), r \in Responses(jobs[j])}

\* cmd_poll / batch_poll_once: one sweep
Sweep ==
    /\ Idle
    /\ \E env \in Envs(Polled(jobs, now)) :
         LET a == poll_once(Files, now, env)
         IN /\ jobs' = a.S.jobs
            /\ meta' = a.S.meta
            /\ result' = a.S.result
            /\ raw' = a.S.raw
            /\ last' = Op("sweep", 0, FALSE, a.raised, <<>>, a.completed, a.seen)
    /\ UNCHANGED now

\* cmd_fetch / batch_fetch: get_job, then fetch_job
Fetch(j, force) ==
    /\ Idle
    /\ j \in DOMAIN jobs
    /\ \E r \in Answers(jobs[j]) :
         LET f == fetch_job(Files, j, jobs[j], force, r)
         IN /\ jobs' = f.S.jobs
            /\ meta' = f.S.meta
            /\ result' = f.S.result
            /\ raw' = f.S.raw
            /\ last' = Op("fetch", j, force, f.raised, f.text, <<>>,
                          IF f.called THEN Put(Empty, j, Classify(jobs[j], r)) ELSE Empty)
    /\ UNCHANGED now

\* The process is stopped (Ctrl+C, kill) inside fetch_job after the result
\* file is written and before update_job has saved the record.
InterruptedFetch(j) ==
    /\ Idle
    /\ j \in DOMAIN jobs
    /\ \E r \in Answers(jobs[j]) :
         LET f == fetch_job(Files, j, jobs[j], FALSE, r)
         IN /\ f.called /\ ~f.raised
            /\ result' = f.S.result
            /\ raw' = f.S.raw
            /\ last' = Op("interrupt", j, FALSE, TRUE, <<>>, <<>>,
                          Put(Empty, j, Classify(jobs[j], r)))
    /\ UNCHANGED <<jobs, meta, now>>

\* Time passes between operations
Tick ==
    /\ Idle
    /\ now + TickStep <= MaxTime
    /\ now' = now + TickStep
    /\ UNCHANGED <<jobs, meta, result, raw, last>>

\* The front end prints or returns the outcome; the next operation may start
Reply ==
    /\ ~Idle
    /\ last' = NoOp
    /\ UNCHANGED <<jobs, meta, result, raw, now>>

Next ==
    \/ (\E j \in JobIds : Submit(j)) /\ UNCHANGED fine
    \/ Sweep /\ UNCHANGED fine
    \/ (\E j \in JobIds, force \in BOOLEAN : Fetch(j, force)) /\ UNCHANGED fine
    \/ (\E j \in JobIds : InterruptedFetch(j)) /\ UNCHANGED fine
    \/ Tick /\ UNCHANGED fine
    \/ Reply /\ UNCHANGED fine

Spec == Init /\ [][Next]_vars

\* ------------------------------------------- extraction on its own
TextF == <<"f">>

\* The lines a results stream may hold: blank, unparsable, and entries of
\* the job's own correlation id and of another one, succeeded (with and
\* without text) and errored
StreamLines(cid) ==
    {BlankLine, BadLine,
     Entry(cid, "succeeded", <<TextA>>), Entry(cid, "succeeded", <<TextB, TextA>>),
     Entry(cid, "succeeded", <<>>), Entry(cid, "errored", <<>>),
     Entry(Foreign, "succeeded", <<TextF>>), Entry(Foreign, "errored", <<>>)}

Streams(cid) == UNION {[1..n -> StreamLines(cid)] : n \in 1..MaxLines}

\* A direct job whose results stream has been downloaded to the raw artifact
InitExtract ==
    /\ jobs = Put(Empty, 1, NewRecord(1, "anthropic", 0))
    /\ meta = jobs
    /\ result = Empty
    /\ raw \in {Put(Empty, 1, stream) : stream \in Streams(CustomId(1))}
    /\ now = 0
    /\ last = NoOp
    /\ store = StoreAt(Empty)
    /\ stale = StaleIdle
    /\ hist = Empty

\* b.extract_text_from_jsonl(jsonl, custom_id=rec.anthropic_custom_id)
Extract(j) ==
    /\ Idle
    /\ j \in DOMAIN raw
    /\ LET x == extract_text_from_jsonl(raw[j], jobs[j].custom_id)
       IN last' = Op("extract", j, FALSE, x.raised,
                     IF x.raised THEN <<>> ELSE x.value, <<>>, Empty)
    /\ UNCHANGED <<jobs, meta, result, raw, now>>

NextExtract ==
    \/ (\E j \in JobIds : Extract(j)) /\ UNCHANGED fine
    \/ Reply /\ UNCHANGED fine

SpecExtract == InitExtract /\ [][NextExtract]_vars

\* ------------------------------------------- the store, step by step
\* One writer process saves the table with atomic_write_json, one step at a
\* time, and may die at any step; reader processes load the table at any time.
coarse == <<jobs, meta, result, raw, now, last, stale, hist>>

\* The job table file at the start: none, or one that json.loads rejects
InitialDisks == {Empty, Put(Empty, JobsPath, <<Junk>>), Put(Empty, JobsPath, <<Open>>)}

InitStore ==
    /\ jobs = Empty
    /\ meta = Empty
    /\ result = Empty
    /\ raw = Empty
    /\ now = 0
    /\ last = NoOp
    /\ store \in {StoreAt(disk) : disk \in InitialDisks}
    /\ stale = StaleIdle
    /\ hist = Empty

\* save_jobs -> atomic_write_json, up to the opening of the temporary file
BeginSave(st, table, out) ==
    [st EXCEPT !.disk = WriteOpen(st.disk, JobsPath),
               !.pc = "open",
               !.prev = FileOf(st.disk),
               !.next = [exists |-> TRUE, text |-> Serialize(table)],
               !.out = out]

\* submit_job: load_jobs, then (the backend having handed out id j) save_jobs
StoreSubmit(j) ==
    /\ store.pc = "idle"
    /\ LET l == load_jobs(store.disk)
       IN IF l.raised
          THEN store' = [store EXCEPT !.out = Outcome("submit", "corrupt", Empty)]
          ELSE /\ j \notin DOMAIN l.value
               /\ store' = BeginSave(store,
                                     Put(l.value, j, NewRecord(j, BackendOf(j), 0)),
                                     Outcome("submit", "none", l.value))

\* update_job for a record whose state fetch_job or poll_once has set
StoreUpdate(j, state) ==
    /\ store.pc = "idle"
    /\ LET l == load_jobs(store.disk)
       IN IF l.raised
          THEN store' = [store EXCEPT !.out = Outcome("update", "corrupt", Empty)]
          ELSE /\ j \in DOMAIN l.value
               /\ ~Terminal(l.value[j].state)
               /\ state # l.value[j].state
               /\ store' = BeginSave(store,
                                     Put(l.value, j, [l.value[j] EXCEPT !.state = state]),
                                     Outcome("update", "none", l.value))

\* tmp.write_text(data): one more piece is written
StoreWrite ==
    /\ store.pc = "open"
    /\ Len(store.disk[TmpOf(JobsPath)]) < Len(store.next.text)
    /\ store' = [store EXCEPT !.disk = WriteMore(store.disk, JobsPath, store.next.text)]

\* tmp.replace(path), once all the data is written
StoreReplace ==
    /\ store.pc = "open"
    /\ Len(store.disk[TmpOf(JobsPath)]) = Len(store.next.text)
    /\ store' = [store EXCEPT !.disk = Replace(store.disk, JobsPath), !.pc = "idle"]

\* The writer dies inside atomic_write_json
StoreCrash ==
    /\ store.pc = "open"
    /\ store' = [store EXCEPT !.pc = "idle"]

\* The load at the head of list_jobs (cmd_list, poll_once) and of get_job
\* (cmd_status, cmd_fetch), by any process at any time
StoreLoad(op, j) ==
    LET l == load_jobs(store.disk)
    IN store' = [store EXCEPT !.out =
                    IF l.raised THEN Outcome(op, "corrupt", Empty)
                    ELSE IF op \in {"status", "fetch"} /\ j \notin DOMAIN l.value
                         THEN Outcome(op, "unknown", l.value)
                         ELSE Outcome(op, "none", l.value)]

NextStore ==
    \/ (\E j \in JobIds : StoreSubmit(j)) /\ UNCHANGED coarse
    \/ (\E j \in JobIds, state \in {"running", "succeeded", "failed"} :
           StoreUpdate(j, state)) /\ UNCHANGED coarse
    \/ StoreWrite /\ UNCHANGED coarse
    \/ StoreReplace /\ UNCHANGED coarse
    \/ StoreCrash /\ UNCHANGED coarse
    \/ (\E op \in {"list", "sweep", "status", "fetch"}, j \in JobIds :
           StoreLoad(op, j)) /\ UNCHANGED coarse

SpecStore == InitStore /\ [][NextStore]_vars

\* ------------------------------------------- a second sweeper process
\* Another process runs poll_once on the same directory.  It has listed the
\* jobs and holds the record of one of them in memory while the first
\* process goes on; lost collects the jobs whose succeeded or failed record it
\* has overwritten.
StalePoll(j) ==
    /\ Idle
    /\ stale.pc = "idle"
    /\ j \in Polled(jobs, now)
    /\ \E delay \in backoff_next_delay_s(jobs[j].attempt) :
          stale' = [stale EXCEPT !.pc = "polled", !.job = j, !.delay = delay,
                                 !.rec = [jobs[j] EXCEPT !.state = "running"]]
    /\ UNCHANGED <<jobs, meta, result, raw, now, last>>

\* The second sweeper reaches the end of its loop body: attempt, next_poll_at,
\* update_job with the record it holds
StaleSave ==
    /\ Idle
    /\ stale.pc = "polled"
    /\ LET a == Reschedule(SweepAcc(Files, <<>>, Empty), stale.job, stale.rec, now,
                           stale.delay, "pending")
       IN /\ jobs' = a.S.jobs
          /\ meta' = a.S.meta
    /\ stale' = [StaleIdle EXCEPT !.lost =
                    IF Terminal(jobs[stale.job].state)
                    THEN stale.lost \cup {stale.job} ELSE stale.lost]
    /\ UNCHANGED <<result, raw, now, last>>

NextRace ==
    \/ (\E j \in JobIds : Submit(j) /\ jobs = Empty) /\ UNCHANGED fine
    \/ (\E j \in JobIds : StalePoll(j)) /\ UNCHANGED <<store, hist>>
    \/ StaleSave /\ UNCHANGED <<store, hist>>
    \/ (\E j \in JobIds : Fetch(j, FALSE)) /\ UNCHANGED fine
    \/ Sweep /\ UNCHANGED fine
    \/ Tick /\ UNCHANGED fine
    \/ Reply /\ UNCHANGED fine

SpecRace == Init /\ [][NextRace]_vars

\* ------------------------------------------- one job from submit on
\* One job is submitted and swept, each sweep waiting for the job to be due;
\* hist keeps what the remote answered to each poll.
HistOf(h, j) == IF j \in DOMAIN h THEN h[j] ELSE <<>>

\* cmd_poll: one sweep, the remote's answers recorded
SoloSweep ==
    /\ \A j \in Polled(jobs, now) : Len(HistOf(hist, j)) < MaxPolls
    /\ Sweep
    /\ hist' = [j \in DOMAIN jobs |->
                  IF j \in DOMAIN last'.seen
                  THEN Append(HistOf(hist, j), last'.seen[j])
                  ELSE HistOf(hist, j)]

\* time.sleep(args.sleep) until a job has become due
WaitDue ==
    /\ Idle
    /\ \E j \in DOMAIN jobs :
          /\ ~Terminal(jobs[j].state)
          /\ jobs[j].next_poll_at > now
          /\ now' = jobs[j].next_poll_at
    /\ UNCHANGED <<jobs, meta, result, raw, last>>

NextSolo ==
    \/ (\E j \in JobIds : Submit(j) /\ jobs = Empty) /\ UNCHANGED fine
    \/ SoloSweep /\ UNCHANGED <<store, stale>>
    \/ WaitDue /\ UNCHANGED fine
    \/ Reply /\ UNCHANGED fine

SpecSolo == Init /\ [][NextSolo]_vars

\* --------------------------------------------------------------- claims
\* A step that is one whole sweep / one whole fetch
SweepStep == last.op = "idle" /\ last'.op = "sweep"
FetchStep == last.op = "idle" /\ last'.op = "fetch"

\* The jobs for which the last operation's status check or fetch raised
Failing(op) == {j \in DOMAIN op.seen : op.seen[j] \in {"error", "unreadable"}}

\* C1: once a job's persisted state is succeeded or failed, no operation
\* changes it to another value.
C1_TerminalStateNeverChanges ==
    [][\A j \in DOMAIN jobs :
          Terminal(jobs[j].state) => j \in DOMAIN jobs' /\ jobs'[j].state = jobs[j].state]_vars

\* C2: a sweep leaves the state, attempt and next_poll_at of every job that
\* was succeeded or failed before it as they were, and makes no remote call
\* for that job.
C2_SweepLeavesTerminalUntouched ==
    [][SweepStep =>
         \A j \in DOMAIN jobs :
            Terminal(jobs[j].state) =>
               /\ jobs'[j].state = jobs[j].state
               /\ jobs'[j].attempt = jobs[j].attempt
               /\ jobs'[j].next_poll_at = jobs[j].next_poll_at
               /\ j \notin DOMAIN last'.seen]_vars

\* A sweep has just polled one job while its sibling, already terminal, was skipped
C2_Witness ==
    /\ last.op = "sweep"
    /\ \E j \in DOMAIN jobs, k \in DOMAIN jobs :
          /\ j # k
          /\ Terminal(jobs[j].state)
          /\ j \notin DOMAIN last.seen
          /\ k \in DOMAIN last.seen

\* C3: after a sweep, a polled job whose remote was terminal with output that
\* cannot be turned into text is failed and has a result artifact, and every
\* polled job whose remote was terminal has a terminal persisted state.
C3_UnreadableOutputRecordedFailed ==
    last.op = "sweep" =>
       \A j \in DOMAIN last.seen :
          /\ last.seen[j] = "unreadable" => jobs[j].state = "failed" /\ j \in DOMAIN result
          /\ last.seen[j] \in {"unreadable", "unsuccessful", "ok", "cached"} =>
                Terminal(jobs[j].state)

\* C4: the list a sweep returns holds exactly the jobs that became terminal
\* during it: each returned id was non-terminal before and is terminal after,
\* and each job that turned terminal is returned.
C4_SweepReturnsNewlyTerminal ==
    [][SweepStep =>
         /\ \A i \in 1..Len(last'.completed) :
               /\ ~Terminal(jobs[last'.completed[i]].state)
               /\ Terminal(jobs'[last'.completed[i]].state)
         /\ \A j \in DOMAIN jobs :
               ~Terminal(jobs[j].state) /\ Terminal(jobs'[j].state) =>
                  \E i \in 1..Len(last'.completed) : last'.completed[i] = j]_vars

\* The jobs for which the last operation ran fetch_job to its end
FetchCompleted(op) ==
    IF op.op = "fetch" THEN IF op.raised THEN {} ELSE {op.job}
    ELSE IF op.op = "sweep" THEN {op.completed[i] : i \in 1..Len(op.completed)}
    ELSE {}

\* C5: when the remote job ended unsuccessfully and fetch completes, the
\* job's persisted state is failed.
C5_UnsuccessfulRemoteIsFailed ==
    \A j \in FetchCompleted(last) \cap DOMAIN last.seen :
       last.seen[j] = "unsuccessful" => jobs[j].state = "failed"

\* C6 as stated: when a job's status check or fetch raises during a sweep, its
\* state and attempt are as before the sweep and next_poll_at is later.
C6_ErrorKeepsStateAndAttempt ==
    [][SweepStep =>
         \A j \in Failing(last') :
            /\ jobs'[j].state = jobs[j].state
            /\ jobs'[j].attempt = jobs[j].attempt
            /\ jobs'[j].next_poll_at > jobs[j].next_poll_at]_vars

\* C6 as amended: when a job's status check or fetch raises during a sweep, its
\* state is as before the sweep, its attempt is one more and next_poll_at is
\* later.
C6_ErrorKeepsStateAdvancesBackoff ==
    [][SweepStep =>
         \A j \in Failing(last') :
            /\ jobs'[j].state = jobs[j].state
            /\ jobs'[j].attempt = jobs[j].attempt + 1
            /\ jobs'[j].next_poll_at > jobs[j].next_poll_at]_vars

\* A sweep in which a remote call for a job failed has just ended
C6_Witness == last.op = "sweep" /\ Failing(last) # {}

\* C7: a sweep returns normally and polls every due non-terminal job,
\* whatever the remote calls for the other jobs come to.
C7_ErrorDoesNotStopSweep ==
    [][SweepStep => ~last'.raised /\ DOMAIN last'.seen = Polled(jobs, now)]_vars

\* A sweep has just ended in which the first job polled had a failing remote
\* call and a job listed after it was polled all the same
C7_Witness ==
    /\ last.op = "sweep"
    /\ ~last.raised
    /\ \E a \in 1..Len(list_jobs(jobs)), b \in 1..Len(list_jobs(jobs)) :
          /\ a < b
          /\ list_jobs(jobs)[a] \in Failing(last)
          /\ list_jobs(jobs)[b] \in DOMAIN last.seen

\* C8: after a fetch without force that downloaded the output of a job, a
\* second fetch without force returns the same text as the first did.
C8_SecondFetchReturnsSameText ==
    (last.op = "fetch" /\ ~last.force /\ ~last.raised /\ last.job \in DOMAIN last.seen) =>
       \A r \in Answers(jobs[last.job]) :
          LET second == fetch_job(Files, last.job, jobs[last.job], FALSE, r)
          IN ~second.raised /\ second.text = last.text

\* C9: fetch without force on a job whose result artifact exists returns the
\* artifact's content, calls no remote, and leaves the artifact, the job table
\* and the metadata snapshots as they were.
C9_CachedFetchChangesNothing ==
    [][(FetchStep /\ ~last'.force /\ last'.job \in DOMAIN result) =>
          /\ ~last'.raised
          /\ last'.text = result[last'.job]
          /\ last'.seen = Empty
          /\ result' = result
          /\ jobs' = jobs
          /\ meta' = meta]_vars

\* A fetch without force has just answered from the result artifact
C9_Witness ==
    /\ last.op = "fetch"
    /\ ~last.force
    /\ ~last.raised
    /\ last.seen = Empty
    /\ last.job \in DOMAIN result
    /\ last.text = result[last.job]

\* C10: every change of a job's persisted state is submitted -> running,
\* running -> succeeded or running -> failed.
C10_OnlyListedTransitions ==
    [][\A j \in DOMAIN jobs :
          jobs'[j].state # jobs[j].state =>
             <<jobs[j].state, jobs'[j].state>> \in
                {<<"submitted", "running">>, <<"running", "succeeded">>,
                 <<"running", "failed">>}]_vars

\* A step that is one whole submit
SubmitStep == last.op = "idle" /\ last'.op = "submit"

\* C11: a fetch of a job that has no result artifact, answered by the remote
\* with a status that is not terminal, raises and leaves the result artifacts,
\* the raw artifacts, the job table and the snapshots as they were.
C11_FetchBeforeEndChangesNothing ==
    [][(/\ FetchStep
        /\ last'.job \notin DOMAIN result
        /\ last'.job \in DOMAIN last'.seen
        /\ last'.seen[last'.job] = "pending") =>
          /\ last'.raised
          /\ result' = result
          /\ raw' = raw
          /\ jobs' = jobs
          /\ meta' = meta]_vars

\* A fetch has just failed on a remote that had not ended, for a job with no
\* result artifact and no raw artifact
C11_Witness ==
    /\ last.op = "fetch"
    /\ last.raised
    /\ last.job \in DOMAIN last.seen
    /\ last.seen[last.job] = "pending"
    /\ last.job \notin DOMAIN result
    /\ last.job \notin DOMAIN raw

\* C12: when a submit, a sweep or a fetch has returned, normally or with an
\* error, every job of the table has a snapshot file equal to its record, and
\* there is no snapshot of a job that is not in the table.
C12_SnapshotEqualsRecord ==
    last.op \in {"submit", "sweep", "fetch"} =>
       /\ DOMAIN meta = DOMAIN jobs
       /\ \A j \in DOMAIN jobs : meta[j] = jobs[j]

\* A fetch has just raised after sweeps had rewritten the record of its job
C12_Witness ==
    /\ last.op = "fetch"
    /\ last.raised
    /\ jobs[last.job].attempt > 0
    /\ meta[last.job] = jobs[last.job]

\* The entries of a results stream that carry the correlation id cid
OwnEntries(stream, cid) ==
    SelectSeq(stream, LAMBDA l : l.kind = "obj" /\ l.custom_id = cid)

\* The stream holds one entry for cid, succeeded, with text
OneTextEntry(stream, cid) ==
    /\ Len(OwnEntries(stream, cid)) = 1
    /\ OwnEntries(stream, cid)[1].type = "succeeded"
    /\ OwnEntries(stream, cid)[1].texts # <<>>

\* The text of that entry: its text blocks, one per line
EntryText(stream, cid) == Join(OwnEntries(stream, cid)[1].texts, <<NL>>)

\* A job as submit leaves it
Fresh(rec) == rec.state = "submitted" /\ rec.attempt = 0

\* The direct jobs that a sweep step found as submit left them and for which
\* the remote served a stream with one succeeded text entry
ScenarioA ==
    {j \in DOMAIN jobs :
        /\ jobs[j].backend = "anthropic"
        /\ Fresh(jobs[j])
        /\ j \in DOMAIN last'.seen
        /\ last'.seen[j] = "ok"
        /\ OneTextEntry(raw'[j], jobs[j].custom_id)}

\* The record of the job just submitted is submitted, attempt 0, due now; a
\* sweep polls every job it finds as submit left it
C16_SubmitLeavesDue ==
    /\ SubmitStep =>
          /\ Fresh(jobs'[last'.job])
          /\ jobs'[last'.job].next_poll_at <= now'
    /\ SweepStep =>
          \A j \in DOMAIN jobs : Fresh(jobs[j]) => j \in DOMAIN last'.seen

\* C16 as stated: a new job is submitted, attempt 0 and due; the sweep that
\* finds the direct backend ended with one succeeded text entry returns the
\* id, writes the entry's text to the result artifact and sets succeeded,
\* attempt 0.
C16_FirstSweepWritesEntryText ==
    [][/\ C16_SubmitLeavesDue
       /\ SweepStep =>
             \A j \in ScenarioA :
                /\ \E i \in 1..Len(last'.completed) : last'.completed[i] = j
                /\ result'[j] = EntryText(raw'[j], jobs[j].custom_id)
                /\ jobs'[j].state = "succeeded"
                /\ jobs'[j].attempt = 0]_vars

\* C16 as amended: a new job is submitted, attempt 0 and due; the sweep that
\* finds the direct backend ended with one succeeded text entry returns the
\* id, writes the entry's text, stripped and followed by a newline, to the
\* result artifact, and sets succeeded if the stripped text is not empty and
\* failed if it is, attempt 0.
C16_FirstSweepWritesStrippedText ==
    [][/\ C16_SubmitLeavesDue
       /\ SweepStep =>
             \A j \in ScenarioA :
                LET text == Strip(EntryText(raw'[j], jobs[j].custom_id)) IN
                /\ \E i \in 1..Len(last'.completed) : last'.completed[i] = j
                /\ result'[j] = text \o <<NL>>
                /\ jobs'[j].state = IF text # <<>> THEN "succeeded" ELSE "failed"
                /\ jobs'[j].attempt = 0]_vars

\* A sweep has just fetched a direct job that it met for the first time, and
\* stripping changed the entry's text
C16_Witness ==
    /\ last.op = "sweep"
    /\ \E j \in DOMAIN jobs \cap DOMAIN raw :
          /\ j \in DOMAIN last.seen
          /\ last.seen[j] = "ok"
          /\ jobs[j].attempt = 0
          /\ jobs[j].state = "succeeded"
          /\ OneTextEntry(raw[j], jobs[j].custom_id)
          /\ Strip(EntryText(raw[j], jobs[j].custom_id)) # EntryText(raw[j], jobs[j].custom_id)

\* C17: a submit adds one record under the id the backend handed out, which
\* was not in the table, and leaves every record that was in the table as it
\* was; two submits leave two records.
C17_SubmitKeepsOtherRecords ==
    [][SubmitStep =>
         /\ last'.job \notin DOMAIN jobs
         /\ DOMAIN jobs' = DOMAIN jobs \cup {last'.job}
         /\ \A k \in DOMAIN jobs : jobs'[k] = jobs[k]]_vars

\* The second submit has just returned, the first job's record having been
\* rewritten by sweeps in between
C17_Witness ==
    /\ last.op = "submit"
    /\ Cardinality(DOMAIN jobs) = 2
    /\ \E k \in DOMAIN jobs \ {last.job} : jobs[k].attempt > 0

\* The orders in which the jobs of a list can be visited
Orders(list) ==
    {[i \in 1..Len(list) |-> list[p[i]]] : p \in Permutations(1..Len(list))}

\* What a sweep came to for each job: its state, its attempt, and whether
\* its id is in the list returned
SweepOutcome(a) ==
    [j \in DOMAIN a.S.jobs |->
        [state |-> a.S.jobs[j].state,
         attempt |-> a.S.jobs[j].attempt,
         returned |-> \E i \in 1..Len(a.completed) : a.completed[i] = j]]

\* C19: whatever the remote answers for each job, a sweep that visits the
\* jobs in any other order leaves every job with the same state and attempt,
\* and returns the same ids, as the sweep in list order.
C19_OutcomeIndependentOfOrder ==
    Idle =>
       \A env \in Envs(Polled(jobs, now)), order \in Orders(list_jobs(jobs)) :
          SweepOutcome(poll_in_order(Files, now, env, order))
             = SweepOutcome(poll_once(Files, now, env))

\* Two jobs are due, and the remote's answers make a sweep fetch one of them
\* and reschedule the other
C19_Witness ==
    /\ Idle
    /\ Cardinality(Orders(list_jobs(jobs))) = 2
    /\ \E env \in Envs(Polled(jobs, now)) :
          LET a == poll_once(Files, now, env)
          IN Len(a.completed) = 1 /\ Cardinality(DOMAIN a.seen) = 2

\* The first entry of a stream that is not succeeded, if there is one
HasUnsuccessful(entries) == \E i \in 1..Len(entries) : entries[i].type # "succeeded"

FirstUnsuccessful(entries) ==
    entries[CHOOSE i \in 1..Len(entries) :
               /\ entries[i].type # "succeeded"
               /\ \A k \in 1..(i - 1) : entries[k].type = "succeeded"]

\* A text holds character c
Holds(text, c) == \E i \in 1..Len(text) : text[i] = c

\* What C20 says of an extraction that returned, but for the form in which
\* an unsuccessful entry is returned: the result is what extraction makes of
\* the job's own entries alone, and holds neither text nor the id of an
\* entry of another id
UsesOwnEntriesOnly(stream, cid, value) ==
    /\ value = extract_text_from_jsonl(OwnEntries(stream, cid), cid).value
    /\ ~Holds(value, TextF[1])
    /\ ~Holds(value, Foreign)

LoadOf(file) == IF file.exists THEN Parse(file.text) ELSE Return(Empty)

\* C13: at every step of a save, and after the writer has died at any of
\* them, the job table file is the file as the save found it or the complete
\* new text; if the save found a readable table, a load returns that table or
\* the new one.
C13_FileIsOldOrNew ==
    /\ FileOf(store.disk) \in {store.prev, store.next}
    /\ ~LoadOf(store.prev).raised =>
          /\ ~load_jobs(store.disk).raised
          /\ load_jobs(store.disk).value \in
                {LoadOf(store.prev).value, LoadOf(store.next).value}

\* The writer has died with part of a new table in the temporary file, a
\* table of at least one job having been saved before, and a reader has
\* loaded the table since
C13_Witness ==
    /\ store.pc = "idle"
    /\ TmpOf(JobsPath) \in DOMAIN store.disk
    /\ Len(store.disk[TmpOf(JobsPath)]) \in 1..(Len(store.next.text) - 1)
    /\ store.prev.exists
    /\ Len(store.prev.text) > 2
    /\ store.out.op = "list"
    /\ FileOf(store.disk) = store.prev
    /\ store.out.table = LoadOf(store.prev).value

\* C18: while the job table file exists and cannot be parsed, every
\* operation fails with load_jobs' error and the files stay as they are;
\* while the file is missing, load_jobs returns the empty table and no
\* operation fails with that error.
C18_CorruptStoreFailsLoudly ==
    [][/\ (FileOf(store.disk).exists /\ Parse(FileOf(store.disk).text).raised) =>
             /\ store'.out.err = "corrupt"
             /\ store'.disk = store.disk
       /\ ~FileOf(store.disk).exists =>
             /\ load_jobs(store.disk) = Return(Empty)
             /\ store'.out.err # "corrupt"]_vars

\* A submit has just failed on a job table file that cannot be parsed
C18_Witness ==
    /\ store.out.op = "submit"
    /\ store.out.err = "corrupt"
    /\ FileOf(store.disk).exists
    /\ Parse(FileOf(store.disk).text).raised

\* C14: after a second sweeper has overwritten a job's succeeded or failed
\* record with the running record it held, the next sweep by a single process
\* that polls the job and finds the remote job over leaves the job succeeded
\* or failed.
C14_NextSweepRestoresTerminal ==
    [][(SweepStep /\ stale.pc = "idle") =>
         \A j \in stale.lost \cap DOMAIN last'.seen :
            last'.seen[j] \in {"cached", "ok", "unsuccessful"} =>
               Terminal(jobs'[j].state)]_vars

\* Sequences of one to three non-terminal answers
Pendings == {<<"pending">>, <<"pending", "pending">>, <<"pending", "pending", "pending">>}

\* C15: for a storage-mediated job polled when due: while the remote has
\* answered non-terminal one, two or three times and nothing else, the job is
\* running with attempt the number of polls, and each such poll moved
\* next_poll_at later; when the fourth answer is JOB_STATE_SUCCEEDED with its
\* output, that sweep returns the job, makes it succeeded and writes the
\* result artifact, which did not exist before; a job that is succeeded or
\* failed is not polled and its artifact is not written again by any sweep.
C15_ThreePendingThenFetchedOnce ==
    [][\A j \in DOMAIN jobs :
          LET h == HistOf(hist', j) IN
          jobs[j].backend = "vertex" =>
             /\ h \in Pendings =>
                   /\ jobs'[j].state = "running"
                   /\ jobs'[j].attempt = Len(h)
             /\ (h \in Pendings /\ h # HistOf(hist, j)) =>
                   jobs'[j].next_poll_at > jobs[j].next_poll_at
             /\ (h = <<"pending", "pending", "pending", "ok">> /\ h # HistOf(hist, j)) =>
                   /\ jobs'[j].state = "succeeded"
                   /\ last'.completed = <<j>>
                   /\ j \notin DOMAIN result
                   /\ j \in DOMAIN result'
             /\ Terminal(jobs[j].state) =>
                   /\ h = HistOf(hist, j)
                   /\ result' = result
                   /\ jobs'[j] = jobs[j]]_vars

\* The fourth sweep has just fetched a storage-mediated job that the remote
\* had reported non-terminal three times
C15_Witness ==
    /\ last.op = "sweep"
    /\ \E j \in DOMAIN jobs :
          /\ jobs[j].backend = "vertex"
          /\ HistOf(hist, j) = <<"pending", "pending", "pending", "ok">>
          /\ jobs[j].state = "succeeded"
          /\ jobs[j].attempt = 3

\* ------------------------------------------- submit beside a sweeper
\* A second process runs submit_job: it has loaded the table and is waiting
\* for the backend to accept the batch
SubmitLoad(j) ==
    /\ Idle
    /\ stale.pc = "idle"
    /\ j \in JobIds \ DOMAIN jobs
    /\ stale' = [stale EXCEPT !.pc = "loaded", !.job = j, !.table = jobs]
    /\ UNCHANGED <<jobs, meta, result, raw, now, last>>

\* The backend has handed out job id stale.job: the second process adds the
\* record to the table it loaded, saves it and writes the snapshot
SubmitSave ==
    /\ Idle
    /\ stale.pc = "loaded"
    /\ LET S == submit_job([Files EXCEPT !.jobs = stale.table], stale.job,
                           BackendOf(stale.job), now)
       IN /\ jobs' = S.jobs
          /\ meta' = S.meta
          /\ stale' = [StaleIdle EXCEPT !.lost =
                          {k \in DOMAIN jobs : k \notin DOMAIN S.jobs \/ S.jobs[k] # jobs[k]}]
    /\ UNCHANGED <<result, raw, now, last>>

NextSubmit ==
    \/ (\E j \in JobIds : Submit(j) /\ j # stale.job) /\ UNCHANGED fine
    \/ (\E j \in JobIds : SubmitLoad(j)) /\ UNCHANGED <<store, hist>>
    \/ SubmitSave /\ UNCHANGED <<store, hist>>
    \/ Sweep /\ UNCHANGED fine
    \/ Tick /\ UNCHANGED fine
    \/ Reply /\ UNCHANGED fine

SpecSubmit == Init /\ [][NextSubmit]_vars

\* The second process's submit_job saves the table
SubmitSaveStep == stale.pc = "loaded" /\ stale'.pc = "idle"

\* C25: when submit saves the table, every record that was in the table just
\* before the save is in it unchanged after the save, whatever other
\* processes saved between submit's load and its save.
C25_SubmitKeepsConcurrentUpdates ==
    [][SubmitSaveStep =>
         \A k \in DOMAIN jobs : k \in DOMAIN jobs' /\ jobs'[k] = jobs[k]]_vars

\* ------------------------------------------------------ the daemon loop
\* What a job's remote calls came to when the job has ended remotely and its
\* status and output calls succeed (or its result file is already there)
Settled == {"ok", "unsuccessful", "cached"}

\* cmd_poll --daemon: one sweep of the loop. Each job's calls fail, or find
\* the job still running, at most MaxRetries times; from then on the job has
\* ended remotely and its calls succeed.
LiveSweep ==
    /\ Idle
    /\ \E env \in Envs(Polled(jobs, now)) :
         LET a == poll_once(Files, now, env)
         IN /\ \A j \in DOMAIN a.seen :
                  a.seen[j] \in Settled \/ Len(HistOf(hist, j)) < MaxRetries
            /\ jobs' = a.S.jobs
            /\ meta' = a.S.meta
            /\ result' = a.S.result
            /\ raw' = a.S.raw
            /\ last' = Op("sweep", 0, FALSE, a.raised, <<>>, a.completed, a.seen)
            /\ hist' = [j \in DOMAIN jobs |->
                          IF j \in DOMAIN a.seen /\ a.seen[j] \notin Settled
                          THEN Append(HistOf(hist, j), a.seen[j])
                          ELSE HistOf(hist, j)]
    /\ UNCHANGED now

NextLive ==
    \/ (\E j \in JobIds : Submit(j) /\ jobs = Empty) /\ UNCHANGED fine
    \/ LiveSweep /\ UNCHANGED <<store, stale>>
    \/ WaitDue /\ UNCHANGED fine
    \/ (\E j \in JobIds : InterruptedFetch(j)) /\ UNCHANGED fine
    \/ Reply /\ UNCHANGED fine

\* The loop of cmd_poll never ends: each operation returns, the sleep between
\* two sweeps lets the time of the next poll come, and sweeps keep being made
\* (a sweep can start whenever no operation is running, so strong fairness of
\* LiveSweep comes to this).
LiveFairness ==
    /\ WF_vars(Reply /\ UNCHANGED fine)
    /\ SF_vars(WaitDue /\ UNCHANGED fine)
    /\ []<>(last.op = "sweep")

SpecLive == Init /\ [][NextLive]_vars /\ LiveFairness

\* C24: a job whose result artifact has been written while its saved state is
\* still submitted or running (the fetch was interrupted before update_job)
\* is later brought to succeeded or failed by the sweeps of the daemon.
C24_InterruptedFetchStillSettles ==
    \A j \in JobIds :
       (j \in DOMAIN jobs /\ j \in DOMAIN result /\ ~Terminal(jobs[j].state))
          ~> (j \in DOMAIN jobs /\ Terminal(jobs[j].state))

\* C27: under the daemon's repeated sweeps, every job in the table whose
\* remote status becomes terminal and whose calls come to succeed is
\* eventually succeeded or failed in the table, and stays so.
C27_EveryJobEventuallyTerminal ==
    \A j \in JobIds :
       (j \in DOMAIN jobs) ~> [](j \in DOMAIN jobs /\ Terminal(jobs[j].state))

\* ------------------------------------------------- the backoff schedule
\* A record that has been polled k times without the job ending
PolledRecord(j, k) ==
    [NewRecord(j, BackendOf(j), 0) EXCEPT
        !.attempt = k, !.state = IF k = 0 THEN "submitted" ELSE "running"]

\* One job in the table, polled any number of times so far and due
InitBackoff ==
    /\ jobs \in {Put(Empty, j, PolledRecord(j, k)) : j \in JobIds, k \in 0..MaxAttempt}
    /\ meta = jobs
    /\ result = Empty
    /\ raw = Empty
    /\ now = 0
    /\ last = NoOp
    /\ store = StoreAt(Empty)
    /\ stale = StaleIdle
    /\ hist = Empty

NextBackoff ==
    \/ Sweep /\ UNCHANGED fine
    \/ Tick /\ UNCHANGED fine
    \/ Reply /\ UNCHANGED fine

SpecBackoff == InitBackoff /\ [][NextBackoff]_vars

\* The jobs the last sweep polled and did not fetch
NotFetched(op) ==
    {j \in DOMAIN op.seen : \A i \in 1..Len(op.completed) : op.completed[i] # j}

\* C21: for every job a sweep polls and does not fetch, with k its attempt
\* count, the sweep computes a delay: next_poll_at - now is at least the
\* floor and at most cap * (1 + jitter), and the delay before jitter at k is
\* at most the one at k + 1 and stays at the cap once it has reached it.
C21_DelayBoundedAndNonDecreasing ==
    [][SweepStep =>
         \A j \in NotFetched(last') :
            LET k == jobs[j].attempt
                delay == jobs'[j].next_poll_at - now
            IN /\ ~last'.raised
               /\ delay >= DelayFloor
               /\ delay * JitterDen <= BackoffCap * (JitterDen + 1)
               /\ BackoffRaw(k) <= BackoffRaw(k + 1)
               /\ BackoffRaw(k) = BackoffCap => BackoffRaw(k + 1) = BackoffCap]_vars

\* ------------------------------------------------------ artifact paths
\* A job id is the string the backend returned (r.json()["id"], data["name"]),
\* here a sequence of characters; file names are sequences too.
IdChars == {"a", "/", "_"}

RECURSIVE StringsUpTo(_)
StringsUpTo(n) ==
    IF n = 0 THEN {<<>>}
    ELSE StringsUpTo(n - 1)
         \cup {Append(w, c) : w \in {x \in StringsUpTo(n - 1) : Len(x) = n - 1}, c \in IdChars}

IssuedIds == StringsUpTo(MaxIdLen) \ {<<>>}

\* safe_id = job_id.replace("/", "_")
SafeId(job_id) == [i \in 1..Len(job_id) |-> IF job_id[i] = "/" THEN "_" ELSE job_id[i]]

\* make_result_paths, and raw_path as fetch_job builds it, as file names in
\* the results directory
make_result_paths(job_id) ==
    [result |-> SafeId(job_id) \o <<".md">>,
     meta |-> SafeId(job_id) \o <<".meta.json">>,
     raw |-> SafeId(job_id) \o <<".raw.jsonl">>]

\* What is at a job's path in a directory, under the job's id
AtPath(dir, job_id, path) ==
    IF path \in DOMAIN dir THEN Put(Empty, job_id, dir[path]) ELSE Empty

\* The table and the artifacts at job_id's paths, under the job's id
FilesOf(job_id) ==
    [jobs |-> jobs,
     meta |-> AtPath(meta, job_id, make_result_paths(job_id).meta),
     result |-> AtPath(result, job_id, make_result_paths(job_id).result),
     raw |-> AtPath(raw, job_id, make_result_paths(job_id).raw)]

\* The directory after the job's artifact, when there is one, is written at path
WriteAt(dir, job_id, path, own) ==
    IF job_id \in DOMAIN own THEN Put(dir, path, own[job_id]) ELSE dir

\* The job the last fetch was asked for, and the text downloaded for each job
Asked(job_id, got) == [asked |-> job_id, got |-> got]

InitPaths ==
    /\ jobs = Empty
    /\ meta = Empty
    /\ result = Empty
    /\ raw = Empty
    /\ now = 0
    /\ last = NoOp
    /\ store = StoreAt(Empty)
    /\ stale = StaleIdle
    /\ hist = Asked(<<>>, Empty)

\* submit_job to the direct backend, which hands out job_id
PathSubmit(job_id) ==
    /\ Idle
    /\ job_id \notin DOMAIN jobs
    /\ Cardinality(DOMAIN jobs) < MaxJobs
    /\ LET S == submit_job(FilesOf(job_id), job_id, "anthropic", now)
       IN /\ jobs' = S.jobs
          /\ meta' = WriteAt(meta, job_id, make_result_paths(job_id).meta, S.meta)
          /\ last' = Op("submit", 0, FALSE, FALSE, <<>>, <<>>, Empty)
    /\ UNCHANGED <<result, raw, now, hist>>

\* cmd_fetch: get_job, then fetch_job on the record's paths
PathFetch(job_id, force) ==
    /\ Idle
    /\ job_id \in DOMAIN jobs
    /\ \E r \in Answers(jobs[job_id]) :
         LET f == fetch_job(FilesOf(job_id), job_id, jobs[job_id], force, r)
             paths == make_result_paths(job_id)
         IN /\ jobs' = f.S.jobs
            /\ meta' = WriteAt(meta, job_id, paths.meta, f.S.meta)
            /\ result' = WriteAt(result, job_id, paths.result, f.S.result)
            /\ raw' = WriteAt(raw, job_id, paths.raw, f.S.raw)
            /\ last' = Op("fetch", 0, force, f.raised, f.text, <<>>,
                          IF f.called THEN Put(Empty, job_id, Classify(jobs[job_id], r))
                          ELSE Empty)
            /\ hist' = Asked(job_id,
                             IF f.called /\ ~f.raised THEN Put(hist.got, job_id, f.text)
                             ELSE hist.got)
    /\ UNCHANGED now

NextPaths ==
    \/ (\E job_id \in IssuedIds : PathSubmit(job_id)) /\ UNCHANGED <<store, stale>>
    \/ (\E job_id \in IssuedIds, force \in BOOLEAN : PathFetch(job_id, force))
          /\ UNCHANGED <<store, stale>>
    \/ Reply /\ UNCHANGED fine

SpecPaths == InitPaths /\ [][NextPaths]_vars

\* C26: two jobs in the table with different ids have different result, raw
\* and metadata paths; a fetch leaves the artifacts of every other job in the
\* table as they were, and a fetch answered from the result file without a
\* remote call returns the text downloaded earlier for the job asked for.
C26_DistinctIdsDistinctPaths ==
    [][/\ \A a \in DOMAIN jobs', b \in DOMAIN jobs' :
             a # b =>
                /\ make_result_paths(a).result # make_result_paths(b).result
                /\ make_result_paths(a).raw # make_result_paths(b).raw
                /\ make_result_paths(a).meta # make_result_paths(b).meta
       /\ FetchStep =>
             /\ \A b \in DOMAIN jobs \ {hist'.asked} :
                   /\ AtPath(result', b, make_result_paths(b).result)
                        = AtPath(result, b, make_result_paths(b).result)
                   /\ AtPath(raw', b, make_result_paths(b).raw)
                        = AtPath(raw, b, make_result_paths(b).raw)
             /\ (~last'.raised /\ last'.seen = Empty) =>
                   /\ hist'.asked \in DOMAIN hist'.got
                   /\ last'.text = hist'.got[hist'.asked] \o <<NL>>]_vars

\* The jobs whose output the last operation downloaded and wrote
Downloaded(op) ==
    {j \in FetchCompleted(op) \cap DOMAIN op.seen : op.seen[j] # "cached"}

\* The text fetch_job extracted for a job whose result artifact it wrote:
\* the artifact without the newline added at the end
ExtractedText(j) == SubSeq(result[j], 1, Len(result[j]) - 1)

\* C22: when a fetch has downloaded and written a job's output, for either
\* backend, the job is succeeded if the extracted text is not empty and
\* failed if it is.
C22_StateFollowsExtractedText ==
    \A j \in Downloaded(last) :
       jobs[j].state = IF ExtractedText(j) # <<>> THEN "succeeded" ELSE "failed"

\* C23: every job whose result artifact exists has a raw artifact.
C23_ResultHasRawCopy == \A j \in DOMAIN result : j \in DOMAIN raw

====
